---- MODULE Spec2Model ----
(***************************************************************************)
(* Covariance and weight estimation for GMM IV estimators.                 *)
(*                                                                         *)
(* System weight estimators (linearmodels/system/gmm.py) are modelled from *)
(* their source.  Numbers are exact: a value is a rational [num, den]; the *)
(* square root of a column count is the surd [rad], and a debias factor    *)
(* nobs / (nobs - sqrt(rad)) is kept as the pair [nobs, rad].              *)
(***************************************************************************)
EXTENDS Integers, Sequences, FiniteSets, TLC

\* ---------------------------------------------------------------- bounds
MaxNobs == 3
MaxEqn == 2
MaxVar == 2
MaxSeed == 0
MaxBw == 2

VARIABLES
    mode,   \* "gmm": system weight estimators; "cov": single-equation
            \* estimators; "kernel": the kernel weight functions
    est,    \* the weight estimator object: _center, _debiased, _bandwidth
    x,      \* caller's list of regressor arrays, one per equation
    z,      \* caller's list of instrument arrays, one per equation
    eps,    \* caller's nobs by neqn array of model errors
    sig,    \* caller's neqn by neqn array passed as sigma=
    pc,     \* position inside HeteroskedasticWeightMatrix.weight_matrix
    i,      \* loop index of the fill loop
    loc,    \* first column of ze not yet assigned
    ze,     \* the stacked score array
    nw,     \* number of assignments made to each column of ze
    ret,    \* what the last call on the weight estimator returned or raised
    cin,    \* arguments given to a single-equation covariance constructor
    cobj,   \* the single-equation covariance estimator, once constructed
    cret    \* what the last single-equation call returned or raised

vars == <<mode, est, x, z, eps, sig, pc, i, loc, ze, nw, ret, cin, cobj, cret>>

\* ------------------------------------------------------ exact arithmetic
Abs(a) == IF a < 0 THEN -a ELSE a

RECURSIVE GCD(_, _)
GCD(a, b) == IF b = 0 THEN a ELSE GCD(b, a % b)

\* the rational n/d in lowest terms, d > 0
\* an element of numpy.empty: whatever the memory held (den = 0)
Uninit == [num |-> 0, den |-> 0]

Rat(n, d) ==
    IF d = 0 THEN Uninit
    ELSE LET s == IF d < 0 THEN -1 ELSE 1
             g == GCD(Abs(n), Abs(d))
         IN  [num |-> (s * n) \div g, den |-> (s * d) \div g]

R(n) == [num |-> n, den |-> 1]
RAdd(a, b) == Rat(a.num * b.den + b.num * a.den, a.den * b.den)
RSub(a, b) == Rat(a.num * b.den - b.num * a.den, a.den * b.den)
RMul(a, b) == Rat(a.num * b.num, a.den * b.den)
RDivInt(a, n) == Rat(a.num, a.den * n)

\* sum of f[1] .. f[n]
RECURSIVE RSum(_, _)
RSum(f, n) == IF n = 0 THEN R(0) ELSE RAdd(RSum(f, n - 1), f[n])

RECURSIVE ISum(_, _)
ISum(s, n) == IF n = 0 THEN 0 ELSE ISum(s, n - 1) + s[n]

\* matrices: [rows, cols, at], at indexed by <<row, col>>
Mat(r, c, F(_, _)) ==
    [rows |-> r, cols |-> c,
     at |-> [rc \in (1..r) \X (1..c) |-> F(rc[1], rc[2])]]

\* a.T @ b
TDot(a, b) ==
    Mat(a.cols, b.cols,
        LAMBDA u, v : RSum([t \in 1..a.rows |-> RMul(a.at[<<t, u>>], b.at[<<t, v>>])],
                           a.rows))

\* a.mean(0): the column means
ColMean(a) ==
    [c \in 1..a.cols |-> RDivInt(RSum([t \in 1..a.rows |-> a.at[<<t, c>>]], a.rows),
                                 a.rows)]

\* a - a.mean(0)
Demean(a) ==
    LET mu == ColMean(a)
    IN  Mat(a.rows, a.cols, LAMBDA t, c : RSub(a.at[<<t, c>>], mu[c]))

DivN(a, n) == Mat(a.rows, a.cols, LAMBDA r, c : RDivInt(a.at[<<r, c>>], n))

\* numpy.sqrt of a natural number, numpy product of two roots
Sqrt(p) == [rad |-> p]
SurdMul(s, t) == [rad |-> s.rad * t.rad]

\* the factor nobs / (nobs - sqrt(rad)); One is the integer 1
One == [nobs |-> 1, rad |-> 0]
ScaleVal(nobs, surd) == [nobs |-> nobs, rad |-> surd.rad]

ValueError == [error |-> "ValueError"]
IsError(v) == "error" \in DOMAIN v

\* numpy in-place a *= s: s must broadcast to the shape of a
IMul(a, s) ==
    IF s.rows \in {1, a.rows} /\ s.cols \in {1, a.cols}
    THEN Mat(a.rows, a.cols,
             LAMBDA r, c : [val |-> a.at[<<r, c>>],
                            by |-> s.at[<<IF s.rows = 1 THEN 1 ELSE r,
                                          IF s.cols = 1 THEN 1 ELSE c>>]])
    ELSE ValueError

\* ------------------------------------------------ linearmodels/system/gmm.py
Classes == {"HomoskedasticWeightMatrix", "HeteroskedasticWeightMatrix"}

\* __init__(self, center, debiased)
NewWeightMatrix(cls, center, debiased) ==
    [cls |-> cls, center |-> center, debiased |-> debiased, bandwidth |-> 0]

\* list(map(lambda a: a.shape[1], x))
Shape1(xs) == [e \in 1..Len(xs) |-> xs[e].cols]

\* numpy.repeat(nvar, nvar): entry e of nvar repeated nvar[e] times
RECURSIVE Repeat(_, _)
Repeat(nvar, e) ==
    IF e = 0 THEN <<>>
    ELSE Repeat(nvar, e - 1) \o [c \in 1..nvar[e] |-> nvar[e]]

Scalar1 == [rows |-> 1, cols |-> 1, at |-> [rc \in {<<1, 1>>} |-> One]]

\* mutant: the column counts are multiplied without taking roots
DebiasScaleNoSqrt(self, nobs, xs) ==
    IF ~self.debiased THEN Scalar1
    ELSE LET nvar0 == Shape1(xs)
             nvar == Repeat(nvar0, Len(nvar0))
         IN  Mat(Len(nvar), Len(nvar),
                 LAMBDA a, b : ScaleVal(nobs, Sqrt((nvar[a] * nvar[b]) * (nvar[a] * nvar[b]))))

\* HomoskedasticWeightMatrix._debias_scale
DebiasScale(self, nobs, xs) ==
    IF ~self.debiased THEN Scalar1
    ELSE LET nvar0 == Shape1(xs)
             nvar1 == Repeat(nvar0, Len(nvar0))
             nvar == [a \in 1..Len(nvar1) |-> Sqrt(nvar1[a])]
         IN  Mat(Len(nvar), Len(nvar),
                 LAMBDA a, b : ScaleVal(nobs, SurdMul(nvar[a], nvar[b])))

\* mutant: the errors are centered only when the center flag is set
SigmaCenterFlag(self, e, xs) ==
    LET nobs == e.rows
        e1 == IF self.center THEN Demean(e) ELSE e
        sigma == DivN(TDot(e1, e1), nobs)
        scale == DebiasScale(self, nobs, xs)
    IN  [val |-> IMul(sigma, scale), eps |-> e]

\* mutant: eps -= eps.mean(0) centers the caller's array in place
SigmaInPlace(self, e, xs) ==
    LET nobs == e.rows
        e1 == Demean(e)
        sigma == DivN(TDot(e1, e1), nobs)
        scale == DebiasScale(self, nobs, xs)
    IN  [val |-> IMul(sigma, scale), eps |-> e1]

\* HomoskedasticWeightMatrix.sigma: the value returned or raised, and the
\* caller's eps array as the call leaves it
Sigma(self, e, xs) ==
    LET nobs == e.rows
        e1 == Demean(e)
        sigma == DivN(TDot(e1, e1), nobs)
        scale == DebiasScale(self, nobs, xs)
    IN  [val |-> IMul(sigma, scale), eps |-> e]

\* blocked_inner_prod(z, sigma): block (a, b) is z[a].T @ z[b] * sigma[a, b]
ColStart(zs, e) == ISum([m \in 1..Len(zs) |-> zs[m].cols], e - 1)
EqnOf(zs, c) == CHOOSE e \in 1..Len(zs) : ColStart(zs, e) < c /\ c <= ColStart(zs, e + 1)
BlockedInnerProd(zs, sigma) ==
    LET tot == ColStart(zs, Len(zs) + 1)
    IN  Mat(tot, tot,
            LAMBDA r, c :
                LET a == EqnOf(zs, r)
                    b == EqnOf(zs, c)
                    zz == TDot(zs[a], zs[b]).at[<<r - ColStart(zs, a), c - ColStart(zs, b)>>]
                IN  [val |-> RMul(zz, sigma.at[<<a, b>>].val),
                     by |-> sigma.at[<<a, b>>].by])

NoSigma == [none |-> TRUE]

\* HomoskedasticWeightMatrix.weight_matrix
WeightMatrix(self, xs, zs, e, sigma) ==
    LET nobs == zs[1].rows
        sigma1 == IF sigma = NoSigma THEN Sigma(self, e, xs).val ELSE sigma
    IN  IF IsError(sigma1) THEN sigma1
        ELSE LET w == BlockedInnerProd(zs, sigma1)
             IN  Mat(w.rows, w.cols,
                     LAMBDA r, c : [val |-> RDivInt(w.at[<<r, c>>].val, nobs),
                                    by |-> w.at[<<r, c>>].by])

\* mutant: the two flags are stored under each other's key
ConfigSwapped(self) == [center |-> self.debiased, debiased |-> self.center]

\* HomoskedasticWeightMatrix.config
Config(self) == [center |-> self.center, debiased |-> self.debiased]

\* HeteroskedasticWeightMatrix.weight_matrix, lines 142-146
KTotal(zs) == ISum([m \in 1..Len(zs) |-> zs[m].cols], Len(zs))
Empty(r, c) == Mat(r, c, LAMBDA t, m : Uninit)
NoArray == Empty(0, 0)

\* ze[:, loc:loc + zk] = z[i] * e, with e = eps[:, [i]] (i counted from 0)
FillBlock(zea, l, zi, e, n) ==
    [zea EXCEPT !.at =
        [rc \in DOMAIN zea.at |->
            IF l < rc[2] /\ rc[2] <= l + zi.cols
            THEN RMul(zi.at[<<rc[1], rc[2] - l>>], e.at[<<rc[1], n + 1>>])
            ELSE zea.at[rc]]]

\* mutant: loc = zk
NextLocAssign(l, zi) == zi.cols

\* loc += zk
NextLoc(l, zi) == l + zi.cols

\* mu = ze.mean(axis=0) if self._center else 0; ze -= mu
CenterZe(self, zea) == IF self.center THEN Demean(zea) ELSE zea

\* lines 154-158
ScaleW(self, xs, zea) ==
    LET nobs == xs[1].rows
        w == DivN(TDot(zea, zea), nobs)
        scale == DebiasScale(self, nobs, xs)
    IN  IMul(w, scale)

\* ------------------------------------------------- panel/iv/covariance.py
CovClasses == {"HomoskedasticCovariance", "HeteroskedasticCovariance",
               "OneWayClusteredCovariance", "KernelCovariance"}
Kernels == {"bartlett", "parzen"}
NoObject == [none |-> TRUE]

\* mutant: the cluster vector's length is not checked
DimsOkNoClusters(a) ==
    /\ a.xrows = a.yrows /\ a.xrows = a.zrows
    /\ a.nparams = a.xcols

\* the constructor's checks: rows of x, y and z agree, one parameter per
\* column of x, and one cluster label per observation
DimsOk(a) ==
    /\ a.xrows = a.yrows /\ a.xrows = a.zrows
    /\ a.nparams = a.xcols
    /\ a.cls = "OneWayClusteredCovariance" => a.nclusters = a.xrows

\* construction: the estimator object, or the error raised instead of it
NewCovariance(a) ==
    IF ~DimsOk(a) THEN [obj |-> NoObject, val |-> ValueError]
    ELSE [obj |-> [cls |-> a.cls, debiased |-> a.debiased, nobs |-> a.xrows,
                   nvar |-> a.xcols, xe |-> a.xe, kernel |-> a.kernel,
                   bandwidth |-> a.bandwidth],
          val |-> [ok |-> TRUE]]

\* kernel_weight_bartlett(bw): w(l) = 1 - l / (bw + 1)
KernelWeightBartlett(bw) == [l \in 0..bw |-> Rat(bw + 1 - l, bw + 1)]

Cube(a) == RMul(a, RMul(a, a))

\* kernel_weight_parzen(bw): with z = l / (bw + 1),
\* w(l) = 1 - 6 z^2 + 6 z^3 for z <= 0.5, else 2 (1 - z)^3
KernelWeightParzen(bw) ==
    [l \in 0..bw |->
        LET zl == Rat(l, bw + 1)
        IN  IF 2 * l <= bw + 1
            THEN RAdd(RSub(R(1), RMul(R(6), RMul(zl, zl))), RMul(R(6), Cube(zl)))
            ELSE RMul(R(2), Cube(RSub(R(1), zl)))]

\* the function w(k) inside test_kernel_parzen
ParzenReference(k) ==
    [l \in 0..k |->
        LET zl == Rat(l, k + 1)
        IN  IF 2 * l > k + 1
            THEN RMul(R(2), RSub(R(1), Cube(zl)))
            ELSE RAdd(RSub(R(1), RMul(R(6), RMul(zl, zl))), RMul(R(6), Cube(zl)))]

KernelWeight(kernel, bw) ==
    IF kernel = "bartlett" THEN KernelWeightBartlett(bw) ELSE KernelWeightParzen(bw)

MAdd(a, b) == Mat(a.rows, a.cols, LAMBDA r, c : RAdd(a.at[<<r, c>>], b.at[<<r, c>>]))
MScale(a, q) == Mat(a.rows, a.cols, LAMBDA r, c : RMul(a.at[<<r, c>>], q))

\* xe[l:].T @ xe[:-l] + xe[:-l].T @ xe[l:]
LagCross(xe, l) ==
    Mat(xe.cols, xe.cols,
        LAMBDA u, v :
            RSum([t \in 1..xe.rows |->
                    IF t > l
                    THEN RAdd(RMul(xe.at[<<t, u>>], xe.at[<<t - l, v>>]),
                              RMul(xe.at[<<t - l, u>>], xe.at[<<t, v>>]))
                    ELSE R(0)], xe.rows))

RECURSIVE LagSum(_, _, _)
LagSum(xe, w, l) ==
    IF l = 0 THEN TDot(xe, xe)
    ELSE MAdd(LagSum(xe, w, l - 1), MScale(LagCross(xe, l), w[l]))

\* HeteroskedasticCovariance.s: xe'xe / n, or / (n - p) when debiased
HeteroS(o) ==
    DivN(TDot(o.xe, o.xe), IF o.debiased THEN o.nobs - o.nvar ELSE o.nobs)

\* mutant: the debiased kernel estimate is scaled by (n - 1) / (n - p)
KernelSOffByOne(o) ==
    LET sk == DivN(LagSum(o.xe, KernelWeight(o.kernel, o.bandwidth), o.bandwidth), o.nobs)
    IN  IF o.debiased THEN MScale(sk, Rat(o.nobs - 1, o.nobs - o.nvar)) ELSE sk

\* KernelCovariance.s: the weighted sum of lagged cross-products over n,
\* scaled by n / (n - p) when debiased
KernelS(o) ==
    LET sk == DivN(LagSum(o.xe, KernelWeight(o.kernel, o.bandwidth), o.bandwidth), o.nobs)
    IN  IF o.debiased THEN MScale(sk, Rat(o.nobs, o.nobs - o.nvar)) ELSE sk

CovS(o) == IF o.cls = "KernelCovariance" THEN KernelS(o) ELSE HeteroS(o)

\* config of a single-equation estimator
CovConfig(o) ==
    IF o.cls = "KernelCovariance"
    THEN [name |-> o.cls, debiased |-> o.debiased, kernel |-> o.kernel,
          bandwidth |-> o.bandwidth]
    ELSE [name |-> o.cls, debiased |-> o.debiased]

\* ------------------------------------------------------------ the caller
Val(a) == R((a % 4) - 1)
XGen(n, p, e, s) == Mat(n, p, LAMBDA t, c : Val(s + t + c + e))
ZGen(n, q, e, s) == Mat(n, q, LAMBDA t, c : Val(s + t * c + e))
EpsGen(n, k, s) == Mat(n, k, LAMBDA t, e : Val(s + t * e + 1))
SigGen(k, s) == Mat(k, k, LAMBDA a, b : [val |-> R(IF a = b THEN s + 2 ELSE 1), by |-> One])

Nothing == [op |-> "none"]

InitGmm ==
    /\ mode = "gmm"
    /\ \E cls \in Classes, center \in BOOLEAN, debiased \in BOOLEAN :
           est = NewWeightMatrix(cls, center, debiased)
    /\ \E n \in (MaxNobs - 1)..MaxNobs, k \in 1..MaxEqn, s \in 0..MaxSeed :
       \E ps \in [1..k -> 1..MaxVar], over \in 0..1 :
           /\ x = [e \in 1..k |-> XGen(n, ps[e], e, s)]
           /\ z = [e \in 1..k |-> ZGen(n, ps[e] + (IF e = k THEN over ELSE 0), e, s)]
           /\ eps = EpsGen(n, k, s)
           /\ sig = SigGen(k, s)
    /\ pc = "idle"
    /\ i = 0
    /\ loc = 0
    /\ ze = NoArray
    /\ nw = <<>>
    /\ ret = Nothing
    /\ cin = NoObject
    /\ cobj = NoObject
    /\ cret = Nothing

\* est.sigma(eps, x)
CallSigma ==
    /\ mode = "gmm" /\ pc = "idle"
    /\ ret' = [op |-> "sigma", val |-> Sigma(est, eps, x).val]
    /\ eps' = Sigma(est, eps, x).eps
    /\ UNCHANGED <<mode, cin, cobj, cret, est, x, z, sig, pc, i, loc, ze, nw>>

\* est.weight_matrix(x, z, eps) on a HomoskedasticWeightMatrix
CallWeightMatrix ==
    /\ mode = "gmm" /\ pc = "idle"
    /\ est.cls = "HomoskedasticWeightMatrix"
    /\ ret' = [op |-> "weight_matrix", val |-> WeightMatrix(est, x, z, eps, NoSigma)]
    /\ eps' = Sigma(est, eps, x).eps
    /\ UNCHANGED <<mode, cin, cobj, cret, est, x, z, sig, pc, i, loc, ze, nw>>

\* est.weight_matrix(x, z, eps, sigma=sig) on a HomoskedasticWeightMatrix
CallWeightMatrixSigma ==
    /\ mode = "gmm" /\ pc = "idle"
    /\ est.cls = "HomoskedasticWeightMatrix"
    /\ ret' = [op |-> "weight_matrix_sigma", val |-> WeightMatrix(est, x, z, eps, sig)]
    /\ UNCHANGED <<mode, cin, cobj, cret, est, x, z, eps, sig, pc, i, loc, ze, nw>>

\* est._debias_scale(nobs, x)
CallDebiasScale ==
    /\ mode = "gmm" /\ pc = "idle"
    /\ ret' = [op |-> "_debias_scale", val |-> DebiasScale(est, eps.rows, x)]
    /\ UNCHANGED <<mode, cin, cobj, cret, est, x, z, eps, sig, pc, i, loc, ze, nw>>

\* est.config
CallConfig ==
    /\ mode = "gmm" /\ pc = "idle"
    /\ ret' = [op |-> "config", val |-> Config(est)]
    /\ UNCHANGED <<mode, cin, cobj, cret, est, x, z, eps, sig, pc, i, loc, ze, nw>>

\* est.weight_matrix(x, z, eps) on a HeteroskedasticWeightMatrix: entry
HWStart ==
    /\ mode = "gmm" /\ pc = "idle"
    /\ est.cls = "HeteroskedasticWeightMatrix"
    /\ ze' = Empty(x[1].rows, KTotal(z))
    /\ nw' = [c \in 1..KTotal(z) |-> 0]
    /\ loc' = 0
    /\ i' = 0
    /\ pc' = "fill"
    /\ UNCHANGED ret
    /\ UNCHANGED <<mode, cin, cobj, cret, est, x, z, eps, sig>>

\* one iteration of for i in range(k)
HWFill ==
    /\ mode = "gmm" /\ pc = "fill"
    /\ i < Len(x)
    /\ ze' = FillBlock(ze, loc, z[i + 1], eps, i)
    /\ nw' = [c \in DOMAIN nw |->
                 IF loc < c /\ c <= loc + z[i + 1].cols THEN nw[c] + 1 ELSE nw[c]]
    /\ loc' = NextLoc(loc, z[i + 1])
    /\ i' = i + 1
    /\ UNCHANGED <<mode, cin, cobj, cret, est, x, z, eps, sig, pc, ret>>

\* the loop ends; ze -= mu
HWCenter ==
    /\ mode = "gmm" /\ pc = "fill"
    /\ i = Len(x)
    /\ ze' = CenterZe(est, ze)
    /\ pc' = "scale"
    /\ UNCHANGED <<mode, cin, cobj, cret, est, x, z, eps, sig, i, loc, nw, ret>>

\* w = ze.T @ ze / nobs; w *= scale; return w
HWScale ==
    /\ mode = "gmm" /\ pc = "scale"
    /\ ret' = [op |-> "hweight_matrix", val |-> ScaleW(est, x, ze)]
    /\ pc' = "idle"
    /\ ze' = NoArray
    /\ nw' = <<>>
    /\ i' = 0
    /\ loc' = 0
    /\ UNCHANGED <<mode, cin, cobj, cret, est, x, z, eps, sig>>

XeGen(n, p, s) == Mat(n, p, LAMBDA t, c : Val(s + t * t + c))

InitCov ==
    /\ mode = "cov"
    /\ \E cls \in CovClasses, debiased \in BOOLEAN, s \in 0..MaxSeed, p \in 1..MaxVar :
       \E n \in (p + 1)..(MaxNobs + 1), dy \in 0..1, dz \in 0..1, dp \in 0..1 :
       \E dc \in (IF cls = "OneWayClusteredCovariance" THEN 0..1 ELSE {0}),
          kernel \in (IF cls = "KernelCovariance" THEN Kernels ELSE {"bartlett"}),
          bw \in (IF cls = "KernelCovariance" THEN 0..MaxBw ELSE {0}) :
           cin = [cls |-> cls, debiased |-> debiased, xrows |-> n, xcols |-> p,
                  yrows |-> n - dy, zrows |-> n - dz, nparams |-> p + dp,
                  nclusters |-> n - dc, xe |-> XeGen(n, p, s),
                  kernel |-> kernel, bandwidth |-> bw]
    /\ cobj = NoObject
    /\ cret = Nothing
    /\ est = NewWeightMatrix("HomoskedasticWeightMatrix", FALSE, FALSE)
    /\ x = <<>>
    /\ z = <<>>
    /\ eps = NoArray
    /\ sig = NoArray
    /\ pc = "idle"
    /\ i = 0
    /\ loc = 0
    /\ ze = NoArray
    /\ nw = <<>>
    /\ ret = Nothing

\* cls(x, y, z, params, debiased, ...)
Construct ==
    /\ mode = "cov" /\ cobj = NoObject
    /\ cobj' = NewCovariance(cin).obj
    /\ cret' = [op |-> "init", val |-> NewCovariance(cin).val]
    /\ UNCHANGED <<mode, est, x, z, eps, sig, pc, i, loc, ze, nw, ret, cin>>

\* c.s on a heteroskedastic or kernel estimator
AccessS ==
    /\ mode = "cov" /\ cobj # NoObject
    /\ cobj.cls \in {"HeteroskedasticCovariance", "KernelCovariance"}
    /\ cret' = [op |-> "s", val |-> CovS(cobj)]
    /\ UNCHANGED <<mode, est, x, z, eps, sig, pc, i, loc, ze, nw, ret, cin, cobj>>

\* c.config
AccessConfig ==
    /\ mode = "cov" /\ cobj # NoObject
    /\ cret' = [op |-> "config", val |-> CovConfig(cobj)]
    /\ UNCHANGED <<mode, est, x, z, eps, sig, pc, i, loc, ze, nw, ret, cin, cobj>>

\* test_kernel_parzen: kernel_weight_parzen(bw) beside the test's own w(bw)
TestKernelParzen ==
    /\ mode = "kernel"
    /\ \E bw \in 0..MaxBw :
           cret' = [op |-> "test_kernel_parzen", bw |-> bw,
                    val |-> KernelWeightParzen(bw), ref |-> ParzenReference(bw)]
    /\ UNCHANGED <<mode, est, x, z, eps, sig, pc, i, loc, ze, nw, ret, cin, cobj>>

InitKernel ==
    /\ mode = "kernel"
    /\ cin = NoObject
    /\ cobj = NoObject
    /\ cret = Nothing
    /\ est = NewWeightMatrix("HomoskedasticWeightMatrix", FALSE, FALSE)
    /\ x = <<>>
    /\ z = <<>>
    /\ eps = NoArray
    /\ sig = NoArray
    /\ pc = "idle"
    /\ i = 0
    /\ loc = 0
    /\ ze = NoArray
    /\ nw = <<>>
    /\ ret = Nothing

Init == InitGmm \/ InitCov \/ InitKernel

Next ==
    \/ CallSigma
    \/ CallWeightMatrix
    \/ CallWeightMatrixSigma
    \/ CallDebiasScale
    \/ CallConfig
    \/ HWStart
    \/ HWFill
    \/ HWCenter
    \/ HWScale
    \/ Construct
    \/ AccessS
    \/ AccessConfig
    \/ TestKernelParzen

Spec == Init /\ [][Next]_vars

\* ------------------------------------------------------------- properties
NCols(xs) == ISum(Shape1(xs), Len(xs))
\* the debias factor of equation pair (a, b): n / (n - sqrt(p_a) * sqrt(p_b))
PairScale(n, xs, a, b) == [nobs |-> n, rad |-> xs[a].cols * xs[b].cols]
\* the factor n / (n - p_a * p_b), written with the root of (p_a * p_b)^2
PairScaleProduct(n, xs, a, b) ==
    [nobs |-> n, rad |-> (xs[a].cols * xs[b].cols) * (xs[a].cols * xs[b].cols)]
\* centered cross-product of residual columns a and b, divided by n
CenteredCross(e, a, b) ==
    LET mean(c) == RDivInt(RSum([t \in 1..e.rows |-> e.at[<<t, c>>]], e.rows), e.rows)
    IN  RDivInt(RSum([t \in 1..e.rows |->
                        RMul(RSub(e.at[<<t, a>>], mean(a)), RSub(e.at[<<t, b>>], mean(b)))],
                     e.rows), e.rows)
\* entry (r, c) of the stacked scores: instrument column c of its equation
\* times that equation's residual
Stacked(zs, e, r, c) ==
    RMul(zs[EqnOf(zs, c)].at[<<r, c - ColStart(zs, EqnOf(zs, c))>>], e.at[<<r, EqnOf(zs, c)>>])

StackedMean(zs, e, c) ==
    RDivInt(RSum([t \in 1..e.rows |-> Stacked(zs, e, t, c)], e.rows), e.rows)
\* entry (r, c) of ze as the fill loop and the centering leave it
Score(self, zs, e, r, c) ==
    IF self.center THEN RSub(Stacked(zs, e, r, c), StackedMean(zs, e, c))
    ELSE Stacked(zs, e, r, c)
\* entry (r, c) of ze'ze / n
ScoreGram(self, zs, e, r, c) ==
    RDivInt(RSum([t \in 1..e.rows |-> RMul(Score(self, zs, e, t, r), Score(self, zs, e, t, c))],
                 e.rows), e.rows)

\* C1 as stated: _debias_scale returns 1 when debiased is false, and when
\* debiased is true the entry of equation pair (a, b) is n / (n - p_a * p_b).
C1_Original ==
    ret.op = "_debias_scale" =>
        IF ~est.debiased THEN ret.val = Scalar1
        ELSE \A r \in 1..NCols(x), c \in 1..NCols(x) :
                ret.val.at[<<r, c>>] = PairScaleProduct(eps.rows, x, EqnOf(x, r), EqnOf(x, c))

\* C1 amended: _debias_scale returns 1 when debiased is false, and when
\* debiased is true a (sum p) by (sum p) array whose entry for a regressor
\* column of equation a and one of equation b is n / (n - sqrt(p_a) * sqrt(p_b)).
C1_DebiasScale ==
    ret.op = "_debias_scale" =>
        IF ~est.debiased THEN ret.val = Scalar1
        ELSE /\ ret.val.rows = NCols(x) /\ ret.val.cols = NCols(x)
             /\ \A r \in 1..NCols(x), c \in 1..NCols(x) :
                    ret.val.at[<<r, c>>] = PairScale(eps.rows, x, EqnOf(x, r), EqnOf(x, c))

C1_Witness ==
    /\ ret.op = "_debias_scale" /\ est.debiased
    /\ Len(x) = 2 /\ x[1].cols = 1 /\ x[2].cols = 2

\* C2: with debiased set, HeteroskedasticWeightMatrix.weight_matrix returns a
\* (sum q) by (sum q) array whose block (a, b) is that block of ze'ze / n times
\* the debias factor of equation pair (a, b), also when some q_a > p_a.
C2_HeteroWeightScaled ==
    (ret.op = "hweight_matrix" /\ est.debiased) =>
        /\ ~IsError(ret.val)
        /\ ret.val.rows = KTotal(z) /\ ret.val.cols = KTotal(z)
        /\ \A r \in 1..KTotal(z), c \in 1..KTotal(z) :
              ret.val.at[<<r, c>>] =
                  [val |-> ScoreGram(est, z, eps, r, c),
                   by |-> PairScale(eps.rows, x, EqnOf(z, r), EqnOf(z, c))]

\* C3: with debiased set, sigma returns a k by k array whose (a, b) entry is
\* the centered cross-product of residual columns a and b over n times the
\* debias factor of equation pair (a, b).
C3_SigmaScaledByEquation ==
    (ret.op = "sigma" /\ est.debiased) =>
        /\ ~IsError(ret.val)
        /\ ret.val.rows = Len(x) /\ ret.val.cols = Len(x)
        /\ \A a \in 1..Len(x), b \in 1..Len(x) :
              ret.val.at[<<a, b>>] =
                  [val |-> CenteredCross(eps, a, b), by |-> PairScale(eps.rows, x, a, b)]

Flip(self) == [self EXCEPT !.center = ~self.center]

\* C4: on a HomoskedasticWeightMatrix the center flag has no effect: sigma and
\* weight_matrix return what the estimator with the other center value
\* returns, and sigma is computed from mean-centered residuals.
C4_CenterNoEffect ==
    est.cls = "HomoskedasticWeightMatrix" =>
        /\ ret.op = "sigma" =>
              /\ ret.val = Sigma(Flip(est), eps, x).val
              /\ ~IsError(ret.val) =>
                    \A a \in 1..Len(x), b \in 1..Len(x) :
                        ret.val.at[<<a, b>>].val = CenteredCross(eps, a, b)
        /\ ret.op = "weight_matrix" =>
              ret.val = WeightMatrix(Flip(est), x, z, eps, NoSigma)
        /\ ret.op = "weight_matrix_sigma" =>
              ret.val = WeightMatrix(Flip(est), x, z, eps, sig)

C4_Witness ==
    /\ est.cls = "HomoskedasticWeightMatrix" /\ ~est.center
    /\ ret.op = "weight_matrix" /\ ~IsError(ret.val)
    /\ Demean(eps) # eps
    /\ Len(x) = 2

\* C8 as stated: the config mapping of every estimator holds the key name and
\* the key debiased with the value given at construction.
C8_Original ==
    /\ ret.op = "config" =>
          /\ {"name", "debiased"} \subseteq DOMAIN ret.val
          /\ ret.val.debiased = est.debiased
    /\ cret.op = "config" =>
          /\ {"name", "debiased"} \subseteq DOMAIN cret.val
          /\ cret.val.debiased = cin.debiased

\* C8 amended: the config mapping of a single-equation covariance estimator
\* holds name, the estimator's identifier, and debiased as given at
\* construction; the config mapping of HomoskedasticWeightMatrix and
\* HeteroskedasticWeightMatrix holds exactly center and debiased as given at
\* construction, and no name.
C8_Config ==
    /\ ret.op = "config" =>
          /\ DOMAIN ret.val = {"center", "debiased"}
          /\ ret.val.debiased = est.debiased
          /\ ret.val.center = est.center
    /\ cret.op = "config" =>
          /\ {"name", "debiased"} \subseteq DOMAIN cret.val
          /\ cret.val.name = cin.cls
          /\ cret.val.debiased = cin.debiased

C8_Witness ==
    /\ ret.op = "config" /\ est.debiased /\ ~est.center
    /\ est.cls = "HeteroskedasticWeightMatrix"

\* C9: sigma and weight_matrix leave the caller's x, z, eps and sigma arrays and
\* the estimator's fields as they were; calling again with the same arguments
\* returns the same result, and config does not change.
C9_SideEffectFree ==
    [][/\ x' = x /\ z' = z /\ eps' = eps /\ sig' = sig
       /\ est' = est
       /\ Config(est') = Config(est)
       /\ (ret'.op = ret.op /\ ret.op # "none") => ret' = ret]_vars

C9_Witness ==
    /\ ret.op = "sigma" /\ ~IsError(ret.val)
    /\ Demean(eps) # eps

\* C10: while the fill loop runs loc is the sum of q over the equations already
\* processed, exactly the columns below loc have been assigned, once, and hold
\* the instrument times the residual of their equation; when the loop ends loc
\* is sum q and every column was assigned once; column means are subtracted if
\* and only if center is set.
C10_FillLoop ==
    /\ pc = "fill" =>
          /\ loc = ColStart(z, i + 1)
          /\ ze.rows = x[1].rows /\ ze.cols = KTotal(z)
          /\ \A c \in 1..KTotal(z) :
                /\ nw[c] = (IF c <= loc THEN 1 ELSE 0)
                /\ \A r \in 1..ze.rows :
                      ze.at[<<r, c>>] = (IF c <= loc THEN Stacked(z, eps, r, c) ELSE Uninit)
          /\ i = Len(x) => loc = KTotal(z)
    /\ pc = "scale" =>
          /\ loc = KTotal(z)
          /\ \A c \in 1..KTotal(z) :
                /\ nw[c] = 1
                /\ \A r \in 1..ze.rows : ze.at[<<r, c>>] = Score(est, z, eps, r, c)
                /\ \A r \in 1..ze.rows :
                      (ze.at[<<r, c>>] = Stacked(z, eps, r, c))
                          <=> (~est.center \/ StackedMean(z, eps, c) = R(0))

C10_Witness ==
    /\ pc = "scale" /\ Len(x) = 2 /\ est.center
    /\ z[1].cols = 2 /\ z[2].cols = 3
    /\ \E c \in 1..KTotal(z) : StackedMean(z, eps, c) # R(0)

\* C5: KernelCovariance built with bandwidth 0 has the s of
\* HeteroskedasticCovariance on the same inputs, debiased or not.
C5_KernelBandwidthZero ==
    (cret.op = "s" /\ cobj.cls = "KernelCovariance" /\ cobj.bandwidth = 0) =>
        cret.val = HeteroS([cobj EXCEPT !.cls = "HeteroskedasticCovariance"])

C5_Witness ==
    /\ cret.op = "s" /\ cobj.cls = "KernelCovariance" /\ cobj.bandwidth = 0
    /\ cobj.debiased /\ cobj.nvar = 2
    /\ \E rc \in DOMAIN cret.val.at : cret.val.at[rc] # R(0)

\* C6: a constructor given x, y, z of unequal row counts, a parameter vector
\* whose length is not the column count of x, or (clustered) a cluster vector
\* whose length is not the observation count raises at once and yields no
\* estimator; an estimator that exists never raises it on a later access.
C6_EagerValidation ==
    LET bad == \/ cin.xrows # cin.yrows \/ cin.xrows # cin.zrows
               \/ cin.nparams # cin.xcols
               \/ (cin.cls = "OneWayClusteredCovariance" /\ cin.nclusters # cin.xrows)
    IN  mode = "cov" =>
          /\ (cret.op = "init" /\ bad) => (cobj = NoObject /\ cret.val = ValueError)
          /\ cobj # NoObject => ~bad
          /\ cret.op \in {"s", "config"} => (cobj # NoObject /\ ~IsError(cret.val))

C6_Witness ==
    /\ cret.op = "init" /\ cret.val = ValueError /\ cobj = NoObject
    /\ cin.cls = "OneWayClusteredCovariance"
    /\ cin.nclusters # cin.xrows /\ cin.xrows = cin.yrows /\ cin.xrows = cin.zrows
    /\ cin.nparams = cin.xcols

\* C7: for every bandwidth bw and lag l in 0..bw, kernel_weight_parzen(bw)[l]
\* is 1 - 6 z^2 + 6 z^3 when z = l / (bw + 1) <= 0.5 and 2 (1 - z)^3 otherwise,
\* and the reference function of the test suite computes the same weight.
C7_ParzenReference ==
    cret.op = "test_kernel_parzen" =>
        \A l \in 0..cret.bw :
            LET zl == Rat(l, cret.bw + 1)
                w == IF 2 * l <= cret.bw + 1
                     THEN RAdd(RSub(R(1), RMul(R(6), RMul(zl, zl))), RMul(R(6), Cube(zl)))
                     ELSE RMul(R(2), Cube(RSub(R(1), zl)))
            IN  cret.val[l] = w /\ cret.ref[l] = w

====
